---- MODULE Spec2Model ----
(***************************************************************************)
(* Model of the qibo client job handle (qibo_job.py): the status mapping,  *)
(* the polling loop, the archive unpacker and QiboJob.result(), and the    *)
(* job-info operations refresh(), status(), running() and done(); two      *)
(* handles whose result() calls interleave; and the TIIProvider client     *)
(* (tiiprovider.py): its construction and run_circuit().                   *)
(***************************************************************************)
EXTENDS Integers, Sequences, FiniteSets, TLC

VARIABLES
    pid, base_url,                 \* QiboJob.__init__: fixed at construction
    circuit, nshots, device, lab_location, _status,   \* QiboJob attributes
    results_folder, results_path,  \* attributes set by result()
    pc,                            \* position inside the running call
    url,                           \* local of result(): the polled endpoint
    response,                      \* local: last response received
    seen,                          \* Job-Status headers parsed by the loop, in order
    gets, sleeps,                  \* GETs issued / sleeps done by the current loop
    archive_path,                  \* local of the unpacker: temporary file name
    result,                        \* local of result(): the QiboJobResult
    loads,                         \* calls of qibo.result.load_result in this result()
    dirs, files, tmp_files,        \* file system: folders, extracted files, temp files
    tmp_counter,                   \* temporary names handed out so far
    ncalls,                        \* result() calls started
    outcome,                       \* how the last finished call ended
    retval,                        \* value returned by the last info call / run_circuit
    info_requests,                 \* GET /job/info requests issued by the last call
    status_requests,               \* GET /job/status requests issued by the last call
    fetched,                       \* a completed refresh() or status() has fetched a status
    reply,                         \* reply to the last JSON request (job info, job
                                   \* status; the client's version check and POST)
    parked,                        \* a second QiboJob, while the first one runs
    tii_pc,                        \* TIIProvider: position of the client
    tii_pid,                       \* TIIProvider.pid
    tii_result_folder,             \* TIIProvider.result_folder
    posts,                         \* POST run_circuit/ requests the client issued
    result_gets,                   \* GET get_result/ requests the client issued
    tii_outcome                    \* how the last TIIProvider call ended

vars == <<pid, base_url, circuit, nshots, device, lab_location, _status,
          results_folder, results_path, pc, url, response, seen, gets, sleeps,
          archive_path, result, loads, dirs, files, tmp_files, tmp_counter,
          ncalls, outcome, retval, info_requests, status_requests, fetched,
          reply, parked, tii_pc, tii_pid, tii_result_folder, posts, result_gets,
          tii_outcome>>

handle_vars == <<pid, base_url, circuit, nshots, device, lab_location, _status>>
info_vars == <<retval, info_requests, status_requests, fetched, reply>>
provider_vars == <<tii_pc, tii_pid, tii_result_folder, posts, result_gets,
                   tii_outcome>>
other_vars == <<parked, provider_vars>>

---------------------------------------------------------------------------
(* Bounds of the model. *)
MaxPolls == 3
MaxCalls == 2
MaxTwoCalls == 1
MaxRuns == 2

(* Python's None. *)
None == "None"

Pids == {"abc123", "xyz789"}
BaseUrls == {"http://host:8010"}

---------------------------------------------------------------------------
(* QiboJobStatus: the enumeration, in declaration order. *)
QiboJobStatus ==
    << [name |-> "QUEUED",  value |-> "to_do"],
       [name |-> "RUNNING", value |-> "in_progress"],
       [name |-> "DONE",    value |-> "success"],
       [name |-> "ERROR",   value |-> "error"] >>

(* Faulty variant: the token is matched ignoring case. *)
convert_ignoring_case(status) ==
    LET hits == {i \in DOMAIN QiboJobStatus :
                    QiboJobStatus[i].value = (IF status = "Error" THEN "error" ELSE status)}
    IN  IF hits = {} THEN "None"
        ELSE QiboJobStatus[CHOOSE i \in hits : \A j \in hits : i <= j].name

(* Faulty variant: the token is looked up among the member names as well. *)
convert_by_name_or_value(status) ==
    LET hits == {i \in DOMAIN QiboJobStatus :
                    status \in {QiboJobStatus[i].value, QiboJobStatus[i].name}}
    IN  IF hits = {} THEN "None"
        ELSE QiboJobStatus[CHOOSE i \in hits : \A j \in hits : i <= j].name

(* next((s for s in QiboJobStatus if s.value == status), None) *)
convert_str_to_job_status(status) ==
    LET hits == {i \in DOMAIN QiboJobStatus : QiboJobStatus[i].value = status}
    IN  IF hits = {} THEN None
        ELSE QiboJobStatus[CHOOSE i \in hits : \A j \in hits : i <= j].name

(* Faulty variant: the loop stops on DONE only. *)
TerminalStatusesDoneOnly == {"DONE"}

(* job_status in [QiboJobStatus.DONE, QiboJobStatus.ERROR] *)
TerminalStatuses == {"DONE", "ERROR"}

(* Wire tokens a server may put in the Job-Status header or a status field:
   the four enum values and one that is none of them (a case variant). *)
Tokens == {"to_do", "in_progress", "success", "error", "Error"}

(* Further strings a status field may hold: upper and mixed case variants of
   an enum value, the name of an enum member, the empty string. *)
OtherTokens == {"SUCCESS", "To_Do", "QUEUED", ""}

(* str.lower() on the tokens of the model. *)
Lower(s) == IF s = "Error" THEN "error" ELSE s

---------------------------------------------------------------------------
(* Response headers: a dictionary, here a set of <<name, value>> pairs. *)
HeaderSets == {{}} \cup {{<<"Job-Status", t>>} : t \in Tokens}
HasHeader(headers, name) == \E h \in headers : h[1] = name
GetHeader(headers, name) == (CHOOSE h \in headers : h[1] = name)[2]

(* Bytes of a response body, one record per block of the stream. *)
(* File data: a header word and, for a saved qibo result, the state it holds. *)
NoData == [magic |-> "", state |-> ""]
Npy(s) == [magic |-> "NUMPY", state |-> s]
Garbage == [magic |-> "????", state |-> ""]
Text == [magic |-> "text", state |-> ""]
States == {"state_a", "state_b"}

(* Blocks of a body: the gzip framing, a tar member, bytes that are neither, and
   the place where a gzip stream stops before its end-of-stream marker. *)
Gz == [kind |-> "gzip", name |-> "", data |-> NoData]
Junk == [kind |-> "junk", name |-> "", data |-> NoData]
Cut == [kind |-> "cut", name |-> "", data |-> NoData]
Member(n, d) == [kind |-> "member", name |-> n, data |-> d]

Bodies ==
    {<<Gz, Member("results.npy", Npy(s))>> : s \in States}
    \cup { <<Gz, Member("results.npy", Garbage)>>,
           <<Gz, Member("stderr.log", Text)>>,
           <<Gz, Member("stderr.log", Text), Cut>>,
           <<Junk>>,
           <<>> }

(* response.iter_content(): the body cut into chunks; a chunk may be empty. *)
OneChunk(body) == IF body = <<>> THEN <<>> ELSE <<body>>
ByteChunks(body) == <<(<<>>)>> \o [i \in 1..Len(body) |-> <<body[i]>>]
Streams ==
    {OneChunk(b) : b \in Bodies}
    \cup {ByteChunks(b) : b \in {<<Gz, Member("results.npy", Npy("state_a"))>>, <<Junk>>}}

Responses == [headers : HeaderSets, stream : Streams]
NoResponse == [headers |-> {}, stream |-> <<>>]

---------------------------------------------------------------------------
(* The record QiboJobResult(pid, success, result). *)
QiboJobResult(p, s, r) == [pid |-> p, success |-> s, result |-> r]
NoResult == QiboJobResult(None, FALSE, None)

(* Replies of the job-info and job-status endpoints: the HTTP status code and the
   body, which is a JSON object, the JSON value null, or not JSON at all.  A key
   the object does not hold is Absent. *)
Absent == "<absent>"
DeviceObjects ==
    {[present |-> FALSE, device |-> Absent, lab_location |-> Absent]}
    \cup [present : {TRUE}, device : {Absent, "device_srv"},
          lab_location : {Absent, "lab_srv"}]
JsonObject(c, n, d, s, e) ==
    [kind |-> "object", circuit |-> c, nshots |-> n, device |-> d, status |-> s,
     detail |-> e]
EmptyObject == JsonObject(Absent, Absent, CHOOSE d \in DeviceObjects : ~d.present,
                          Absent, Absent)
JsonNull == [EmptyObject EXCEPT !.kind = "null"]
NotJson == [EmptyObject EXCEPT !.kind = "text"]
InfoBodies ==
    {JsonObject(c, n, d, s, Absent) :
        c \in {Absent, "circuit_srv"}, n \in {Absent, "nshots_srv"},
        d \in DeviceObjects, s \in {Absent} \cup Tokens}
StatusBodies ==
    {[EmptyObject EXCEPT !.status = s] : s \in {Absent} \cup Tokens \cup OtherTokens}
ErrorBodies ==
    {[EmptyObject EXCEPT !.detail = e] : e \in {Absent, "Job not found"}}
    \cup {NotJson, JsonNull}
Reply(code, body) == [status_code |-> code, body |-> body]
NoReply == Reply(0, NotJson)
InfoReplies ==
    {Reply(200, b) : b \in InfoBodies \cup {JsonNull, NotJson}}
    \cup {Reply(304, NotJson)}
    \cup {Reply(c, b) : c \in {404, 500}, b \in ErrorBodies}
StatusReplies ==
    {Reply(200, b) : b \in StatusBodies \cup {JsonNull, NotJson}}
    \cup {Reply(304, NotJson)}
    \cup {Reply(c, b) : c \in {404, 500}, b \in ErrorBodies}

Outcome(op, kind, exc) == [op |-> op, kind |-> kind, exc |-> exc, code |-> 0, msg |-> ""]
NoOutcome == Outcome("", "none", "")

---------------------------------------------------------------------------
(* Archive unpacker, as pure functions of the bytes. *)

RECURSIVE Concat(_)
Concat(chunks) ==
    IF chunks = <<>> THEN <<>> ELSE Head(chunks) \o Concat(Tail(chunks))

(* for chunk in stream: if chunk: tmp_file.write(chunk) *)
_write_stream_to_tmp_file(stream) ==
    Concat(SelectSeq(stream, LAMBDA chunk : chunk # <<>>))

(* tarfile.open(source_archive, "r:gz") raises tarfile.ReadError: an empty file,
   no gzip framing, or gzip data that holds no tar header. *)
RaisesReadError(content) ==
    \/ Len(content) = 0
    \/ content[1] # Gz
    \/ \E i \in 2..Len(content) : content[i].kind = "junk"

(* The gzip stream stops short: gzip raises EOFError while tarfile reads on
   (CPython: "Compressed file ended before the end-of-stream marker was
   reached"); EOFError is no tarfile.ReadError. *)
RaisesEOFError(content) ==
    \E i \in 2..Len(content) : content[i].kind = "cut"

(* The blocks tarfile reads before the stream ends or stops. *)
Readable(content) ==
    {i \in 2..Len(content) :
        \A j \in 2..i : content[j].kind = "member"}

(* archive.extractall(destination_folder): every member read is written,
   replacing a file of the same name. *)
_extract_archive_to_folder(content, folder, fs) ==
    LET members == {content[i] : i \in Readable(content)}
        names == {m.name : m \in members}
    IN  {f \in fs : ~(f.dir = folder /\ f.name \in names)}
        \cup {[dir |-> folder, name |-> m.name, data |-> m.data] : m \in members}

(* Path.unlink() *)
Unlink(path, tmps) == {t \in tmps : t.path # path}

(* qibo.result.load_result(path): the state a saved result holds. *)
CanLoad(data) == data.magic = "NUMPY"
load_result(data) == data.state

TmpContent(path) == (CHOOSE t \in tmp_files : t.path = path).content

---------------------------------------------------------------------------
(* QiboJob.__init__ *)
Construct(p, b, c, n, l, d) ==
    /\ base_url = b
    /\ pid = p
    /\ circuit = c
    /\ nshots = n
    /\ device = d
    /\ lab_location = l
    /\ _status = None

(* Everything outside the handle, before any call. *)
Idle ==
    /\ results_folder = None /\ results_path = None
    /\ pc = "idle" /\ url = None /\ response = NoResponse
    /\ seen = <<>> /\ gets = 0 /\ sleeps = 0
    /\ archive_path = 0 /\ result = NoResult /\ loads = 0
    /\ dirs = {} /\ files = {} /\ tmp_files = {} /\ tmp_counter = 0
    /\ ncalls = 0 /\ outcome = NoOutcome
    /\ retval = None /\ info_requests = 0 /\ status_requests = 0
    /\ fetched = FALSE /\ reply = NoReply
    /\ tii_pc = "new" /\ tii_pid = None /\ tii_result_folder = None
    /\ posts = 0 /\ result_gets = 0 /\ tii_outcome = NoOutcome

(* A QiboJob that is not the one running: its attributes and the locals of its
   result() call. *)
NewHandle(p, b) ==
    [pid |-> p, base_url |-> b, circuit |-> None, nshots |-> None,
     device |-> None, lab_location |-> None, _status |-> None,
     results_folder |-> None, results_path |-> None, pc |-> "idle",
     url |-> None, response |-> NoResponse, seen |-> <<>>, gets |-> 0,
     sleeps |-> 0, archive_path |-> 0, result |-> NoResult, loads |-> 0,
     ncalls |-> 0, outcome |-> NoOutcome]
NoHandle == NewHandle(None, None)

(* A handle built as QiboJob(pid, base_url). *)
Init ==
    /\ \E p \in Pids, b \in BaseUrls : Construct(p, b, None, None, None, None)
    /\ Idle
    /\ parked = NoHandle

---------------------------------------------------------------------------
(* QiboJob.result(), step by step. *)

fs_vars == <<dirs, files, tmp_files, tmp_counter>>
loop_vars == <<seen, gets, sleeps>>

(* return result / raise, ending the call *)
Return(exc) == pc' = "idle" /\ outcome' = Outcome("result", "return", exc)
Raise(exc) == pc' = "idle" /\ outcome' = Outcome("result", "raise", exc)

(* url = ...; response = wait_for_response_to_get_request(url, wait, verbose) *)
result_begin ==
    /\ pc = "idle"
    /\ ncalls < MaxCalls
    /\ ncalls' = ncalls + 1
    /\ url' = <<base_url, "/job/result/", pid, "/">>
    /\ pc' = "get"
    /\ response' = NoResponse /\ seen' = <<>> /\ gets' = 0 /\ sleeps' = 0
    /\ archive_path' = 0 /\ result' = NoResult /\ loads' = 0
    /\ outcome' = NoOutcome
    /\ UNCHANGED <<handle_vars, info_vars, other_vars, fs_vars, results_folder, results_path>>

(* One pass of the while loop up to the return or the sleep. *)
wait_for_response_to_get_request ==
    /\ pc = "get"
    /\ gets < MaxPolls
    /\ \E r \in Responses :
        /\ response' = r
        /\ gets' = gets + 1
        /\ IF ~HasHeader(r.headers, "Job-Status")
           THEN Raise("KeyError") /\ seen' = seen
           ELSE LET job_status ==
                        convert_str_to_job_status(GetHeader(r.headers, "Job-Status"))
                IN  /\ seen' = Append(seen, GetHeader(r.headers, "Job-Status"))
                    /\ outcome' = outcome
                    /\ pc' = IF job_status \in TerminalStatuses THEN "mkdir" ELSE "sleep"
    /\ UNCHANGED <<handle_vars, info_vars, other_vars, fs_vars, results_folder, results_path,
                   url, sleeps, archive_path, result, loads, ncalls>>

(* time.sleep(seconds_between_checks) *)
wait_sleep ==
    /\ pc = "sleep"
    /\ sleeps' = sleeps + 1
    /\ pc' = "get"
    /\ UNCHANGED <<handle_vars, info_vars, other_vars, fs_vars, results_folder, results_path,
                   url, response, seen, gets, archive_path, result, loads, ncalls,
                   outcome>>

(* Faulty variant: one results folder for every job. *)
SharedResultsFolder(p) == "results"

(* constants.RESULTS_BASE_FOLDER / self.pid: the folder is named by the pid. *)
ResultsFolder(p) == p

(* self.results_folder = ...; mkdir(parents=True, exist_ok=True);
   result = QiboJobResult(pid=self.pid, success=False, result=None) *)
result_mkdir ==
    /\ pc = "mkdir"
    /\ results_folder' = ResultsFolder(pid)
    /\ dirs' = dirs \cup {results_folder'}
    /\ result' = QiboJobResult(pid, FALSE, None)
    /\ pc' = "write"
    /\ UNCHANGED <<handle_vars, info_vars, other_vars, files, tmp_files, tmp_counter,
                   results_path, url, response, loop_vars, archive_path, loads,
                   ncalls, outcome>>

(* archive_path = _write_stream_to_tmp_file(stream) *)
save_write ==
    /\ pc = "write"
    /\ tmp_counter' = tmp_counter + 1
    /\ archive_path' = tmp_counter'
    /\ tmp_files' = tmp_files \cup
            {[path |-> archive_path',
              content |-> _write_stream_to_tmp_file(response.stream)]}
    /\ pc' = "extract"
    /\ UNCHANGED <<handle_vars, info_vars, other_vars, dirs, files, results_folder,
                   results_path, url, response, loop_vars, result, loads, ncalls,
                   outcome>>

(* except tarfile.ReadError as err: ...log...; return result *)
OnReadError == Return("ReadError")

(* _extract_archive_to_folder(archive_path, results_folder); a tarfile.ReadError
   leaves _save_and_unpack_stream_response_to_folder and is caught by result(),
   which returns the result built before; any other exception of the
   extraction leaves result() too. *)
save_extract ==
    /\ pc = "extract"
    /\ IF RaisesReadError(TmpContent(archive_path))
       THEN /\ files' = files
            /\ OnReadError
       ELSE /\ files' = _extract_archive_to_folder(
                            TmpContent(archive_path), results_folder, files)
            /\ IF RaisesEOFError(TmpContent(archive_path))
               THEN Raise("EOFError")
               ELSE pc' = "unlink" /\ outcome' = outcome
    /\ UNCHANGED <<handle_vars, info_vars, other_vars, dirs, tmp_files, tmp_counter,
                   results_folder, results_path, url, response, loop_vars,
                   archive_path, result, loads, ncalls>>

(* archive_path.unlink() *)
save_unlink ==
    /\ pc = "unlink"
    /\ tmp_files' = Unlink(archive_path, tmp_files)
    /\ pc' = "check"
    /\ UNCHANGED <<handle_vars, info_vars, other_vars, dirs, files, tmp_counter,
                   results_folder, results_path, url, response, loop_vars,
                   archive_path, result, loads, ncalls, outcome>>

(* Faulty variant: the header is compared with the member's name. *)
IsErrorHeaderByName(headers) == GetHeader(headers, "Job-Status") = "ERROR"

(* if response.headers["Job-Status"].lower() == "error": return result *)
IsErrorHeader(headers) == Lower(GetHeader(headers, "Job-Status")) = "error"

(* Faulty variant: result() stores the status it read from the header. *)
result_check_header_caches ==
    /\ pc = "check"
    /\ _status' = convert_str_to_job_status(GetHeader(response.headers, "Job-Status"))
    /\ IF IsErrorHeader(response.headers)
       THEN Return("")
       ELSE pc' = "load" /\ outcome' = outcome
    /\ UNCHANGED <<pid, base_url, circuit, nshots, device, lab_location, info_vars, other_vars,
                   fs_vars, results_folder, results_path, url, response, loop_vars,
                   archive_path, result, loads, ncalls>>

result_check_header ==
    /\ pc = "check"
    /\ IF IsErrorHeader(response.headers)
       THEN Return("")
       ELSE pc' = "load" /\ outcome' = outcome
    /\ UNCHANGED <<handle_vars, info_vars, other_vars, fs_vars, results_folder, results_path,
                   url, response, loop_vars, archive_path, result, loads, ncalls>>

(* result.result = <loaded>; return result *)
ResultLoaded(res, loaded) == [res EXCEPT !.result = loaded]

(* Faulty variant: a failed load is caught and the result built before is
   returned. *)
LoadFailureDowngraded(exc) == Return(exc)

(* qibo.result.load_result raises inside result(), which has no handler around
   it: the exception leaves result(). *)
OnLoadFailure(exc) == Raise(exc)

(* self.results_path = self.results_folder / "results.npy"
   result.result = qibo.result.load_result(self.results_path); return result *)
result_load ==
    /\ pc = "load"
    /\ results_path' = <<results_folder, "results.npy">>
    /\ loads' = loads + 1
    /\ LET found == {f \in files : f.dir = results_folder /\ f.name = "results.npy"}
       IN  IF found = {}
           THEN OnLoadFailure("FileNotFoundError") /\ result' = result
           ELSE LET data == (CHOOSE f \in found : TRUE).data
                IN  IF CanLoad(data)
                    THEN /\ result' = ResultLoaded(result, load_result(data))
                         /\ Return("")
                    ELSE OnLoadFailure("LoadError") /\ result' = result
    /\ UNCHANGED <<handle_vars, info_vars, other_vars, fs_vars, results_folder, url, response,
                   loop_vars, archive_path, ncalls>>

Next ==
    \/ result_begin
    \/ wait_for_response_to_get_request
    \/ wait_sleep
    \/ result_mkdir
    \/ save_write
    \/ save_extract
    \/ save_unlink
    \/ result_check_header
    \/ result_load

Spec == Init /\ [][Next]_vars

---------------------------------------------------------------------------
(* The job-info operations: refresh(), status(), running(), done(). *)

(* The attributes refresh() may assign. *)
Attrs == [circuit |-> circuit, nshots |-> nshots, device |-> device,
          lab_location |-> lab_location, status |-> _status]

(* How a call ends: no exception (exc = ""), or the exception raised. *)
Ended(exc, code, msg, attrs) ==
    [exc |-> exc, code |-> code, msg |-> msg, attrs |-> attrs]

(* response.raise_for_status() raises HTTPError *)
raise_for_status(code) == code >= 400 /\ code < 600

(* dict.get(key): None for an absent key *)
DictGet(v) == IF v = Absent THEN None ELSE v

(* Faulty variant: the HTTPError is re-raised unwrapped. *)
RawHTTPError(code, detail, attrs) == Ended("HTTPError", code, "", attrs)

(* raise JobApiError(response.status_code, response.json()["detail"]) *)
JobApiError(code, detail, attrs) == Ended("JobApiError", code, detail, attrs)

(* Faulty variant: a delta update, absent fields keep the attribute's value. *)
_update_job_info_delta(info, a) ==
    LET a1 == [a EXCEPT !.circuit = IF info.circuit = Absent THEN @ ELSE info.circuit,
                        !.nshots = IF info.nshots = Absent THEN @ ELSE info.nshots]
        a2 == [a1 EXCEPT
                 !.lab_location = IF info.device.lab_location = Absent THEN @
                                  ELSE info.device.lab_location,
                 !.device = IF info.device.device = Absent THEN @
                            ELSE info.device.device]
        a3 == [a2 EXCEPT !.status = convert_str_to_job_status(info.status)]
    IN  IF ~info.device.present THEN Ended("KeyError", 0, "", a1)
        ELSE IF info.status = Absent THEN Ended("KeyError", 0, "", a2)
        ELSE Ended("", 0, "", a3)

(* QiboJob._update_job_info: the assignments in order; info["device"] and
   info["status"] raise KeyError on an absent key, after the assignments
   before them. *)
_update_job_info(info, a) ==
    LET a1 == [a EXCEPT !.circuit = DictGet(info.circuit),
                        !.nshots = DictGet(info.nshots)]
        a2 == [a1 EXCEPT !.lab_location = DictGet(info.device.lab_location),
                         !.device = DictGet(info.device.device)]
        a3 == [a2 EXCEPT !.status = convert_str_to_job_status(info.status)]
    IN  IF ~info.device.present THEN Ended("KeyError", 0, "", a1)
        ELSE IF info.status = Absent THEN Ended("KeyError", 0, "", a2)
        ELSE Ended("", 0, "", a3)

(* QiboJob.refresh on the reply r, from attributes a. *)
refresh(r, a) ==
    IF raise_for_status(r.status_code)
    THEN CASE r.body.kind = "text" -> Ended("JSONDecodeError", 0, "", a)
           [] r.body.kind = "null" -> Ended("TypeError", 0, "", a)
           [] r.body.kind = "object" /\ r.body.detail = Absent ->
                    Ended("KeyError", 0, "", a)
           [] OTHER -> JobApiError(r.status_code, r.body.detail, a)
    ELSE CASE r.body.kind = "text" -> Ended("JSONDecodeError", 0, "", a)
           [] r.body.kind = "null" -> Ended("", 0, "", a)
           [] OTHER -> _update_job_info(r.body, a)

(* Faulty variant: a cached DONE or ERROR is kept, the reply cannot move the
   job back. *)
status_keeps_terminal(r, a) ==
    IF raise_for_status(r.status_code) THEN Ended("HTTPError", r.status_code, "", a)
    ELSE CASE r.body.kind = "text" -> Ended("JSONDecodeError", 0, "", a)
           [] r.body.kind = "null" -> Ended("TypeError", 0, "", a)
           [] r.body.kind = "object" /\ r.body.status = Absent ->
                    Ended("KeyError", 0, "", a)
           [] OTHER ->
                Ended("", 0, "",
                      [a EXCEPT !.status = IF @ \in {"DONE", "ERROR"} THEN @
                                           ELSE convert_str_to_job_status(r.body.status)])

(* QiboJob.status on the reply r. *)
status(r, a) ==
    IF raise_for_status(r.status_code) THEN Ended("HTTPError", r.status_code, "", a)
    ELSE CASE r.body.kind = "text" -> Ended("JSONDecodeError", 0, "", a)
           [] r.body.kind = "null" -> Ended("TypeError", 0, "", a)
           [] r.body.kind = "object" /\ r.body.status = Absent ->
                    Ended("KeyError", 0, "", a)
           [] OTHER ->
                Ended("", 0, "", [a EXCEPT !.status = convert_str_to_job_status(r.body.status)])

(* Faulty variant: the lazy refresh is dropped only once a status was ever fetched. *)
NeedsRefreshNeverFetched == ~fetched

(* if self._status is None: self.refresh() *)
NeedsRefresh == _status = None

(* Faulty variant: a call that raises drops the handle's pid. *)
FinishForgetsPid(op, e, value) ==
    /\ pid' = (IF e.exc = "" THEN pid ELSE None)
    /\ base_url' = base_url
    /\ circuit' = e.attrs.circuit
    /\ nshots' = e.attrs.nshots
    /\ device' = e.attrs.device
    /\ lab_location' = e.attrs.lab_location
    /\ _status' = e.attrs.status
    /\ outcome' = [op |-> op, kind |-> IF e.exc = "" THEN "return" ELSE "raise",
                   exc |-> e.exc, code |-> e.code, msg |-> e.msg]
    /\ retval' = IF e.exc = "" THEN value ELSE None

(* The end of a call: attributes stored, exception or return recorded; no
   operation assigns pid or base_url. *)
Finish(op, e, value) ==
    /\ pid' = pid
    /\ base_url' = base_url
    /\ circuit' = e.attrs.circuit
    /\ nshots' = e.attrs.nshots
    /\ device' = e.attrs.device
    /\ lab_location' = e.attrs.lab_location
    /\ _status' = e.attrs.status
    /\ outcome' = [op |-> op, kind |-> IF e.exc = "" THEN "return" ELSE "raise",
                   exc |-> e.exc, code |-> e.code, msg |-> e.msg]
    /\ retval' = IF e.exc = "" THEN value ELSE None

result_vars == <<results_folder, results_path, pc, url, response, seen, gets,
                 sleeps, archive_path, result, loads, dirs, files, tmp_files,
                 tmp_counter, ncalls>>

Bool(b) == IF b THEN "True" ELSE "False"

call_refresh ==
    /\ pc = "idle"
    /\ \E r \in InfoReplies :
        LET e == refresh(r, Attrs) IN
        /\ reply' = r
        /\ info_requests' = 1 /\ status_requests' = 0
        /\ Finish("refresh", e, None)
        /\ fetched' = (fetched \/ (e.exc = "" /\ r.body.kind = "object"))
    /\ UNCHANGED <<result_vars, other_vars>>

call_status ==
    /\ pc = "idle"
    /\ \E r \in StatusReplies :
        LET e == status(r, Attrs) IN
        /\ reply' = r
        /\ info_requests' = 0 /\ status_requests' = 1
        /\ Finish("status", e, e.attrs.status)
        /\ fetched' = (fetched \/ e.exc = "")
    /\ UNCHANGED <<result_vars, other_vars>>

(* running() and done(): the lazy refresh, then the comparison with `is`. *)
Predicate(op, wanted) ==
    /\ IF NeedsRefresh
       THEN \E r \in InfoReplies :
                LET e == refresh(r, Attrs) IN
                /\ reply' = r
                /\ info_requests' = 1 /\ status_requests' = 0
                /\ Finish(op, e, Bool(e.attrs.status = wanted))
                /\ fetched' = (fetched \/ (e.exc = "" /\ r.body.kind = "object"))
       ELSE /\ reply' = reply
            /\ info_requests' = 0 /\ status_requests' = 0
            /\ Finish(op, Ended("", 0, "", Attrs), Bool(_status = wanted))
            /\ fetched' = fetched
    /\ UNCHANGED <<result_vars, other_vars>>

running ==
    /\ pc = "idle"
    /\ Predicate("running", "RUNNING")

done ==
    /\ pc = "idle"
    /\ Predicate("done", "DONE")

(* A handle built with or without the optional constructor arguments. *)
InitInfo ==
    /\ \E p \in Pids, b \in BaseUrls :
          \/ Construct(p, b, None, None, None, None)
          \/ Construct(p, b, "circuit_ctor", "nshots_ctor", "lab_ctor", "device_ctor")
    /\ Idle
    /\ parked = NoHandle

NextInfo ==
    \/ call_refresh
    \/ call_status
    \/ running
    \/ done

SpecInfo == InitInfo /\ [][NextInfo]_vars

---------------------------------------------------------------------------
(* One handle on which all five operations are called, result() step by step
   and the job-info operations between its calls.  The server's answers are
   drawn from a part of Responses and of InfoReplies and StatusReplies. *)
HandleResponses ==
    [headers : {{<<"Job-Status", t>>} : t \in {"in_progress", "success", "error"}},
     stream : {OneChunk(<<Gz, Member("results.npy", Npy("state_a"))>>)}]
HandleReplies ==
    {Reply(200, JsonObject("circuit_srv", Absent,
                           [present |-> TRUE, device |-> "device_srv",
                            lab_location |-> Absent], s, Absent)) :
        s \in {Absent, "success", "in_progress"}}
    \cup {Reply(200, [EmptyObject EXCEPT !.status = s]) :
            s \in {"success", "to_do", "Error"}}
    \cup {Reply(404, [EmptyObject EXCEPT !.detail = "Job not found"])}

NextHandle ==
    \/ result_begin
    \/ wait_for_response_to_get_request /\ response' \in HandleResponses
    \/ wait_sleep
    \/ result_mkdir
    \/ save_write
    \/ save_extract
    \/ save_unlink
    \/ result_check_header
    \/ result_load
    \/ call_refresh /\ reply' \in HandleReplies
    \/ call_status /\ reply' \in HandleReplies
    \/ running /\ reply' \in HandleReplies \cup {NoReply}
    \/ done /\ reply' \in HandleReplies \cup {NoReply}

SpecHandle == InitInfo /\ [][NextHandle]_vars

---------------------------------------------------------------------------
(* Two handles with different pids on one file system, their result() calls
   interleaved step by step: the variables hold the handle that runs, parked
   the other one, and switch hands the processor over. *)
Running ==
    [pid |-> pid, base_url |-> base_url, circuit |-> circuit, nshots |-> nshots,
     device |-> device, lab_location |-> lab_location, _status |-> _status,
     results_folder |-> results_folder, results_path |-> results_path,
     pc |-> pc, url |-> url, response |-> response, seen |-> seen,
     gets |-> gets, sleeps |-> sleeps, archive_path |-> archive_path,
     result |-> result, loads |-> loads, ncalls |-> ncalls, outcome |-> outcome]

switch ==
    /\ parked # NoHandle
    /\ parked' = Running
    /\ pid' = parked.pid /\ base_url' = parked.base_url
    /\ circuit' = parked.circuit /\ nshots' = parked.nshots
    /\ device' = parked.device /\ lab_location' = parked.lab_location
    /\ _status' = parked._status
    /\ results_folder' = parked.results_folder
    /\ results_path' = parked.results_path
    /\ pc' = parked.pc /\ url' = parked.url /\ response' = parked.response
    /\ seen' = parked.seen /\ gets' = parked.gets /\ sleeps' = parked.sleeps
    /\ archive_path' = parked.archive_path /\ result' = parked.result
    /\ loads' = parked.loads /\ ncalls' = parked.ncalls
    /\ outcome' = parked.outcome
    /\ UNCHANGED <<fs_vars, info_vars, provider_vars>>

TwoResponses ==
    [headers : {{<<"Job-Status", t>>} : t \in {"in_progress", "success", "error"}},
     stream : {OneChunk(<<Gz, Member("results.npy", Npy("state_a"))>>),
               OneChunk(<<Junk>>)}]

InitTwo ==
    /\ \E p \in Pids, q \in Pids, b \in BaseUrls :
          /\ p # q
          /\ Construct(p, b, None, None, None, None)
          /\ parked = NewHandle(q, b)
    /\ Idle

(* Each of the two handles starts at most MaxTwoCalls result() calls. *)
NextTwo ==
    \/ result_begin /\ ncalls' <= MaxTwoCalls
    \/ wait_for_response_to_get_request /\ response' \in TwoResponses
    \/ wait_sleep
    \/ result_mkdir
    \/ save_write
    \/ save_extract
    \/ save_unlink
    \/ result_check_header
    \/ result_load
    \/ switch

SpecTwo == InitTwo /\ [][NextTwo]_vars

---------------------------------------------------------------------------
(* TIIProvider (tiiprovider.py): the construction with its version check, and
   run_circuit(), which posts the circuit and polls for the result. *)

(* qibo.__version__ of the client, and the versions a server may report. *)
LocalVersion == "0.2.4"
Versions == {"0.2.4", "0.2.5"}

(* Bodies of the JSON endpoints: an object with its keys, or text that is not
   JSON.  A reply with status code 0 stands for a request that raised
   requests.ConnectionError. *)
JsonBody(keys, v, p) == [kind |-> "object", keys |-> keys, qibo_version |-> v, pid |-> p]
TextBody == [kind |-> "text", keys |-> {}, qibo_version |-> None, pid |-> None]
Unreachable == Reply(0, TextBody)
VersionReplies ==
    {Reply(200, JsonBody({"qibo_version"}, v, None)) : v \in Versions}
    \cup {Reply(200, JsonBody({"detail"}, None, None)), Reply(200, TextBody),
          Reply(404, JsonBody({"detail"}, None, None)), Unreachable}
PostReplies ==
    {Reply(200, JsonBody({"pid", "message"}, None, p)) : p \in Pids}
    \cup {Reply(200, JsonBody({"pid"}, None, "abc123")),
          Reply(200, JsonBody({"message"}, None, None)),
          Reply(200, TextBody),
          Reply(404, JsonBody({"detail"}, None, None)),
          Reply(500, TextBody), Unreachable}

(* response.content == b"Job still in progress" *)
InProgress == [kind |-> "progress", name |-> "", data |-> NoData]
StillInProgress == [headers |-> {}, stream |-> <<(<<InProgress>>)>>]
ProviderResponses ==
    [headers : {{}, {<<"Job-Status", "success">>}, {<<"Job-Status", "error">>},
                {<<"Job-Status", "Error">>}},
     stream : {OneChunk(b) : b \in {<<Gz, Member("results.npy", Npy("state_a"))>>,
                                    <<Gz, Member("results.npy", Garbage)>>,
                                    <<Gz, Member("stderr.log", Text)>>,
                                    <<Junk>>}}]
    \cup {StillInProgress}

(* check_response_has_keys: the exception it raises, "" for none. *)
check_response_has_keys(body, keys) ==
    IF body.kind = "text" THEN "JSONDecodeError"
    ELSE IF keys \ body.keys # {} THEN "MalformedResponseError"
    ELSE ""

(* Faulty variant: a server one patch release ahead is accepted. *)
VersionsAgreeUpToPatch(local, server) == server \in {local, "0.2.5"}

(* assert qibo_local_version == qibo_server_version, the interpreter running
   with assertions enabled (its default). *)
VersionsAgree(local, server) == local = server

(* TIIProvider.check_client_server_qibo_versions on the reply r: the exception
   it raises, "" for none. *)
check_client_server_qibo_versions(r) ==
    IF r = Unreachable THEN "ConnectionError"
    ELSE IF raise_for_status(r.status_code) THEN "HTTPError"
    ELSE IF check_response_has_keys(r.body, {"qibo_version"}) # ""
         THEN check_response_has_keys(r.body, {"qibo_version"})
    ELSE IF VersionsAgree(LocalVersion, r.body.qibo_version) THEN ""
    ELSE "AssertionError"

qibo_vars == <<handle_vars, results_folder, results_path, pc, url, response, seen,
               gets, sleeps, archive_path, result, loads, ncalls, outcome,
               info_requests, status_requests, fetched, parked>>

(* TIIProvider.__init__: an exception leaves the caller without a client. *)
TIIProvider_init ==
    /\ tii_pc = "new"
    /\ \E r \in VersionReplies :
        LET e == check_client_server_qibo_versions(r) IN
        /\ reply' = r
        /\ tii_pc' = (IF e = "" THEN "ready" ELSE "failed")
        /\ tii_outcome' = Outcome("__init__", IF e = "" THEN "return" ELSE "raise", e)
    /\ UNCHANGED <<qibo_vars, fs_vars, retval, tii_pid, tii_result_folder, posts,
                   result_gets>>

(* TIIProvider._post_circuit on the reply r: the exception it raises, "" for
   none. *)
_post_circuit(r) ==
    IF r = Unreachable THEN "ConnectionError"
    ELSE IF raise_for_status(r.status_code) THEN "HTTPError"
    ELSE check_response_has_keys(r.body, {"pid", "message"})

(* except: logger.error(); return -- Logger.error() called without its msg
   argument raises TypeError inside the handler, and the return is not
   reached. *)
OnPostFailure == Outcome("run_circuit", "raise", "TypeError")

(* run_circuit up to the first poll: the POST and its handler. *)
run_circuit_post ==
    /\ tii_pc = "ready"
    /\ posts < MaxRuns
    /\ posts' = posts + 1
    /\ result_gets' = 0
    /\ retval' = None
    /\ \E r \in PostReplies :
        /\ reply' = r
        /\ IF _post_circuit(r) # ""
           THEN /\ tii_outcome' = OnPostFailure
                /\ tii_pc' = "ready"
                /\ tii_pid' = tii_pid
           ELSE /\ tii_outcome' = NoOutcome
                /\ tii_pc' = "poll"
                /\ tii_pid' = r.body.pid
    /\ UNCHANGED <<qibo_vars, fs_vars, tii_result_folder>>

(* What _get_result does with a response that is not "Job still in progress":
   the exception it ends with ("" for none), from the archive written to the
   temporary file, the headers and the files after the extraction.
   tarfile.open(path, "r") fails on the same archives as "r:gz" does. *)
_get_result_exc(r, content, extracted, folder) ==
    LET found == {f \in extracted : f.dir = folder /\ f.name = "results.npy"} IN
    IF RaisesReadError(content) THEN "ReadError"
    ELSE IF RaisesEOFError(content) THEN "EOFError"
    ELSE IF ~HasHeader(r.headers, "Job-Status") THEN "KeyError"
    ELSE IF Lower(GetHeader(r.headers, "Job-Status")) = "error" THEN ""
    ELSE IF found = {} THEN "FileNotFoundError"
    ELSE IF ~CanLoad((CHOOSE f \in found : TRUE).data) THEN "LoadError"
    ELSE ""

(* The value _get_result returns: None after an error header, else the loaded
   result. *)
_get_result_value(r, extracted, folder) ==
    IF Lower(GetHeader(r.headers, "Job-Status")) = "error" THEN None
    ELSE load_result((CHOOSE f \in extracted :
                         f.dir = folder /\ f.name = "results.npy").data)

(* One pass of the loop of _get_result: sleep, GET, and unless the job is still
   in progress the folder, the archive, the header test and the load, which end
   run_circuit. *)
get_result_poll ==
    /\ tii_pc = "poll"
    /\ result_gets < MaxPolls
    /\ result_gets' = result_gets + 1
    /\ \E r \in ProviderResponses :
        IF r = StillInProgress
        THEN /\ tii_pc' = "poll"
             /\ UNCHANGED <<fs_vars, tii_result_folder, tii_outcome, retval>>
        ELSE LET content == _write_stream_to_tmp_file(r.stream)
                 folder == tii_pid
                 extracted == _extract_archive_to_folder(content, folder, files)
                 e == _get_result_exc(r, content, extracted, folder)
             IN  /\ tii_pc' = "ready"
                 /\ tii_result_folder' = folder
                 /\ dirs' = dirs \cup {folder}
                 /\ tmp_counter' = tmp_counter + 1
                 /\ tmp_files' = IF e \in {"ReadError", "EOFError"}
                                 THEN tmp_files \cup {[path |-> tmp_counter',
                                                       content |-> content]}
                                 ELSE tmp_files
                 /\ files' = IF e = "ReadError" THEN files ELSE extracted
                 /\ tii_outcome' = Outcome("run_circuit",
                                           IF e = "" THEN "return" ELSE "raise", e)
                 /\ retval' = IF e = "" THEN _get_result_value(r, extracted, folder)
                               ELSE None
    /\ UNCHANGED <<qibo_vars, reply, posts, tii_pid>>

(* No QiboJob exists; the client is not built yet. *)
InitProvider ==
    /\ Construct(None, None, None, None, None, None)
    /\ Idle
    /\ parked = NoHandle

NextProvider ==
    \/ TIIProvider_init
    \/ run_circuit_post
    \/ get_result_poll

SpecProvider == InitProvider /\ [][NextProvider]_vars

---------------------------------------------------------------------------
(* Vocabulary of the properties. *)

JobStatusHeader == GetHeader(response.headers, "Job-Status")
GotHeader == HasHeader(response.headers, "Job-Status")
ResultFinished == pc = "idle" /\ outcome.op = "result"
ResultReturned == ResultFinished /\ outcome.kind = "return"
LoopRunning == pc \in {"get", "sleep"}
LoopReturned ==
    \/ pc \in {"mkdir", "write", "extract", "unlink", "check", "load"}
    \/ ResultFinished /\ outcome.exc # "KeyError"
ParsesNonTerminal(t) ==
    convert_str_to_job_status(t) \in {"QUEUED", "RUNNING", "None"}
ParsesTerminal(t) == convert_str_to_job_status(t) \in {"DONE", "ERROR"}
ReceivedBytes == Concat(SelectSeq(response.stream, LAMBDA c : c # <<>>))
ValidArchive(bytes) ==
    Len(bytes) >= 1 /\ bytes[1].kind = "gzip"
    /\ \A i \in 2..Len(bytes) : bytes[i].kind = "member"
TmpExists(path) == \E t \in tmp_files : t.path = path

---------------------------------------------------------------------------
(* C1: when the first k Job-Status headers parse to QUEUED, RUNNING or none and
   the (k+1)-th parses to DONE or ERROR, the loop has issued exactly k+1 GETs,
   slept exactly k times, and returned the (k+1)-th response; while it is still
   polling, every header so far was non-terminal and it has slept once per
   response (the sleep after the last one pending or done); result() ends
   having slept exactly k times. *)
C1_ExactPolls ==
    LET n == Len(seen) IN
    /\ \A j \in 1..n : ParsesTerminal(seen[j]) =>
            /\ j = n
            /\ LoopReturned
    /\ LoopReturned =>
            /\ n >= 1
            /\ \A i \in 1..(n - 1) : ParsesNonTerminal(seen[i])
            /\ ParsesTerminal(seen[n])
            /\ gets = n
            /\ sleeps = n - 1
            /\ GotHeader /\ JobStatusHeader = seen[n]
    /\ (LoopRunning /\ pc = "get") => gets = n /\ sleeps = n
    /\ (LoopRunning /\ pc = "sleep") => gets = n /\ sleeps = n - 1

(* The end-to-end scenario: two in_progress polls, then success with a valid
   archive; result() has returned after two sleeps. *)
C1_Witness ==
    /\ ResultReturned
    /\ seen = <<"in_progress", "in_progress", "success">>
    /\ gets = 3 /\ sleeps = 2
    /\ result.result = "state_a"

(* C2: with a success header, a valid gzip-tar body and a loadable results.npy,
   result() returns success = true and the loaded content as payload. *)
C2_SuccessResult ==
    \A s \in States :
        (/\ ResultFinished
         /\ GotHeader /\ JobStatusHeader = "success"
         /\ ReceivedBytes = <<Gz, Member("results.npy", Npy(s))>>)
        => /\ outcome.kind = "return"
           /\ result = QiboJobResult(pid, TRUE, s)

(* C3: every QiboJobResult returned by result() carries a payload iff its
   success flag is true. *)
C3_PayloadIffSuccess ==
    ResultReturned => ((result.result # None) <=> result.success)

(* C4: when the terminal response's body is not a gzip-tar archive, result()
   returns (does not raise) QiboJobResult(pid, success = false, no payload),
   whatever the terminal header, and the results folder of the pid exists. *)
C4_BadArchiveDowngraded ==
    (ResultFinished /\ GotHeader /\ ~ValidArchive(ReceivedBytes))
    => /\ outcome.kind = "return"
       /\ result = QiboJobResult(pid, FALSE, None)
       /\ pid \in dirs
       /\ loads = 0

(* C5: with a Job-Status header of error, result() never calls load_result and
   returns success = false without payload, also when the archive was valid and
   has been extracted. *)
C5_ErrorHeaderNoDecode ==
    (GotHeader /\ JobStatusHeader = "error")
    => /\ loads = 0
       /\ pc # "load"
       /\ ResultFinished =>
              /\ outcome.kind = "return"
              /\ result = QiboJobResult(pid, FALSE, None)

(* C6: once _save_and_unpack_stream_response_to_folder has finished, by
   returning or by a ReadError, its temporary file no longer exists. *)
C6_TmpFileRemoved ==
    (archive_path # 0 /\ (pc \in {"check", "load"} \/ ResultFinished))
    => ~TmpExists(archive_path)

(* C7 as claimed: a polled response whose Job-Status header is missing or is
   none of the four wire tokens keeps the loop polling and raises nothing. *)
C7_MissingOrUnknownKeepsPolling ==
    (gets >= 1 /\ (~GotHeader
                   \/ JobStatusHeader \notin {"to_do", "in_progress", "success", "error"}))
    => /\ LoopRunning
       /\ outcome.kind # "raise"

(* C7 amended: a header that is present but none of the four wire tokens keeps
   the loop polling (sleep, then another request) and raises nothing; a missing
   header makes the lookup raise KeyError, ending the loop without a sleep; the
   loop returns only on a header that parses to DONE or ERROR. *)
C7_UnknownKeepsPolling_MissingRaises ==
    /\ (gets >= 1 /\ GotHeader
            /\ JobStatusHeader \notin {"to_do", "in_progress", "success", "error"})
       => /\ LoopRunning
          /\ outcome.kind # "raise"
          /\ sleeps = IF pc = "sleep" THEN gets - 1 ELSE gets
    /\ (gets >= 1 /\ ~GotHeader)
       => /\ pc = "idle"
          /\ outcome = Outcome("result", "raise", "KeyError")
          /\ sleeps = gets - 1
    /\ LoopReturned => GotHeader /\ JobStatusHeader \in {"success", "error"}

C7_Witness ==
    /\ Len(seen) = 2 /\ seen[1] = "Error"
    /\ gets = 2 /\ sleeps = 1

---------------------------------------------------------------------------
(* Vocabulary of the job-info properties. *)

RefreshEnded == outcome.op = "refresh"
Is2xx(code) == code >= 200 /\ code <= 299
FieldOrNone(v) == IF v = Absent THEN "None" ELSE v
Parsed(token) ==
    CASE token = "to_do" -> "QUEUED"
      [] token = "in_progress" -> "RUNNING"
      [] token = "success" -> "DONE"
      [] token = "error" -> "ERROR"
      [] OTHER -> "None"
Resynced(body) ==
    /\ circuit = FieldOrNone(body.circuit)
    /\ nshots = FieldOrNone(body.nshots)
    /\ device = FieldOrNone(body.device.device)
    /\ lab_location = FieldOrNone(body.device.lab_location)
    /\ _status = (IF body.status = Absent THEN "None" ELSE Parsed(body.status))

(* C8 as claimed: refresh() on any non-2xx reply raises JobApiError carrying the
   HTTP status code and the body's detail field. *)
C8_Non2xxRaisesJobApiError ==
    (RefreshEnded /\ ~Is2xx(reply.status_code))
    => /\ outcome.kind = "raise"
       /\ outcome.exc = "JobApiError"
       /\ outcome.code = reply.status_code
       /\ outcome.msg = reply.body.detail

(* C8 amended: refresh() on a 4xx or 5xx reply whose body is a JSON object with
   a detail field raises JobApiError with the HTTP status code and that detail;
   refresh() never raises the raw HTTPError. *)
C8_ErrorReplyRaisesJobApiError ==
    /\ (RefreshEnded /\ reply.status_code >= 400 /\ reply.status_code <= 599
            /\ reply.body.kind = "object" /\ reply.body.detail # Absent)
       => /\ outcome.kind = "raise"
          /\ outcome.exc = "JobApiError"
          /\ outcome.code = reply.status_code
          /\ outcome.msg = reply.body.detail
    /\ RefreshEnded => outcome.exc # "HTTPError"

C8_Witness ==
    /\ RefreshEnded
    /\ reply = Reply(404, [EmptyObject EXCEPT !.detail = "Job not found"])
    /\ outcome.exc = "JobApiError" /\ outcome.code = 404
    /\ outcome.msg = "Job not found"

(* C9 as claimed: refresh() on a 2xx reply completes without error for every
   subset of the fields in the body, each attribute becoming the body's value,
   or none when the field is absent. *)
C9_AnySubsetResyncs ==
    (RefreshEnded /\ Is2xx(reply.status_code) /\ reply.body.kind = "object")
    => /\ outcome.kind = "return"
       /\ Resynced(reply.body)

(* C9 amended: refresh() on a 2xx reply whose JSON object holds a device object
   and a status, with any subset of circuit, nshots, device.device and
   device.lab_location, completes without error and is a full resync: each
   present field's attribute gets the body's value (status: its parse), each
   absent one becomes none, whatever it was before; a body without the device
   object or without status raises KeyError. *)
C9_ResyncNeedsDeviceAndStatus ==
    /\ (RefreshEnded /\ Is2xx(reply.status_code) /\ reply.body.kind = "object"
            /\ reply.body.device.present /\ reply.body.status # Absent)
       => /\ outcome.kind = "return"
          /\ Resynced(reply.body)
    /\ (RefreshEnded /\ Is2xx(reply.status_code) /\ reply.body.kind = "object"
            /\ (~reply.body.device.present \/ reply.body.status = Absent))
       => /\ outcome.kind = "raise"
          /\ outcome.exc = "KeyError"

C9_Witness ==
    /\ RefreshEnded /\ outcome.kind = "return"
    /\ reply.body.circuit = Absent /\ circuit = "None"
    /\ reply.body.nshots = "nshots_srv" /\ nshots = "nshots_srv"
    /\ reply.body.device.lab_location = Absent /\ lab_location = "None"
    /\ device = "device_srv"
    /\ _status = "RUNNING"

(* C10 as claimed: once a refresh() or status() has completed successfully and
   fetched a status, running() and done() issue no job-info request. *)
C10_NoRequestOnceFetched ==
    [][(outcome'.op \in {"running", "done"} /\ fetched) => info_requests' = 0]_vars

(* C10 amended: running() and done() issue a job-info request exactly when the
   cached status is none (never fetched, fetched as an unrecognised token, or a
   refresh saw a null body), and never a job-status request; with a cached
   status among the four they change nothing and answer from the cache. *)
C10_RequestIffCacheIsNone ==
    [][outcome'.op \in {"running", "done"} =>
          /\ status_requests' = 0
          /\ info_requests' = (IF _status = "None" THEN 1 ELSE 0)
          /\ _status # "None" =>
                /\ UNCHANGED <<handle_vars, reply>>
                /\ outcome'.kind = "return"
                /\ retval' = (IF _status = (IF outcome'.op = "running"
                                             THEN "RUNNING" ELSE "DONE")
                              THEN "True" ELSE "False")]_vars

C10_Witness ==
    /\ outcome.op = "running" /\ outcome.kind = "return"
    /\ fetched /\ _status = "RUNNING"
    /\ info_requests = 0 /\ retval = "True"

---------------------------------------------------------------------------
StatusEnded == outcome.op = "status"

(* C11 as claimed: status() on any 2xx reply sets the cached status to the parse
   of the reply's status and returns that value; on any non-2xx reply it raises
   the HTTP client's HTTPError. *)
C11_StatusOn2xxElseHTTPError ==
    /\ (StatusEnded /\ Is2xx(reply.status_code))
       => /\ outcome.kind = "return"
          /\ _status = Parsed(reply.body.status)
          /\ retval = _status
    /\ (StatusEnded /\ ~Is2xx(reply.status_code))
       => /\ outcome.kind = "raise"
          /\ outcome.exc = "HTTPError"

(* C11 amended: status() on a 2xx reply whose body is a JSON object with a
   status field sets the cached status to the parse of that field and returns
   the same value, whatever was cached before; on a 4xx or 5xx reply it raises
   the HTTP client's HTTPError with that code and leaves the cache alone;
   status() never raises JobApiError. *)
C11_StatusTrustsLatestReply ==
    [][outcome'.op = "status" =>
          /\ (Is2xx(reply'.status_code) /\ reply'.body.kind = "object"
                  /\ reply'.body.status # Absent)
             => /\ outcome'.kind = "return"
                /\ _status' = Parsed(reply'.body.status)
                /\ retval' = _status'
          /\ (reply'.status_code >= 400 /\ reply'.status_code <= 599)
             => /\ outcome'.kind = "raise"
                /\ outcome'.exc = "HTTPError"
                /\ outcome'.code = reply'.status_code
                /\ _status' = _status
          /\ outcome'.exc # "JobApiError"]_vars

C11_Witness ==
    /\ StatusEnded /\ outcome.kind = "return"
    /\ fetched /\ circuit = "circuit_srv"
    /\ reply.body.status = "to_do"
    /\ _status = "QUEUED" /\ retval = "QUEUED"

(* C12: convert_str_to_job_status never raises and maps "to_do", "in_progress",
   "success" and "error" to QUEUED, RUNNING, DONE and ERROR and every other
   string, case variants and member names included, to none: whenever status()
   or refresh() is handed a status string, the call returns and the cached
   status is that mapping of the string. *)
C12_ConvertIsTotal ==
    /\ \A t \in Tokens \cup OtherTokens : convert_str_to_job_status(t) = Parsed(t)
    /\ (outcome.op \in {"status", "refresh"} /\ Is2xx(reply.status_code)
            /\ reply.body.kind = "object" /\ reply.body.status # Absent
            /\ (outcome.op = "refresh" => reply.body.device.present))
       => /\ outcome.kind = "return"
          /\ _status = Parsed(reply.body.status)
          /\ reply.body.status \notin {"to_do", "in_progress", "success", "error"}
                => _status = "None"

C12_Witness ==
    /\ StatusEnded /\ outcome.kind = "return"
    /\ reply.body.status = "SUCCESS"
    /\ _status = "None" /\ retval = "None"

---------------------------------------------------------------------------
PayloadFiles == {f \in files : f.dir = results_folder /\ f.name = "results.npy"}
Decodable == \E f \in PayloadFiles : f.data.magic = "NUMPY"

(* C13: when result() has extracted the archive, seen a non-error Job-Status
   header and tried to load the payload file, and that file is missing or does
   not hold a saved result, the call ends by raising the load failure: it
   returns nothing, in particular no QiboJobResult with success = false. *)
C13_DecodeFailurePropagates ==
    /\ (ResultFinished /\ loads = 1 /\ ~Decodable)
       => /\ outcome.kind = "raise"
          /\ outcome.exc \in {"LoadError", "FileNotFoundError"}
    /\ (ResultReturned /\ ~Decodable) => loads = 0
    /\ pc = "load" => (loads = 0 /\ ~IsErrorHeader(response.headers))

C13_Witness ==
    /\ ResultFinished /\ loads = 1
    /\ ~IsErrorHeader(response.headers)
    /\ \E f \in PayloadFiles : f.data = Garbage
    /\ ~TmpExists(archive_path)
    /\ outcome.kind = "raise" /\ outcome.exc = "LoadError"

---------------------------------------------------------------------------
(* C14: no step of refresh(), status(), running(), done() or result(), whether
   the call returns or raises, changes the handle's pid or base_url: both keep
   the values given at construction. *)
C14_IdentityImmutable == [][pid' = pid /\ base_url' = base_url]_vars

C14_Witness ==
    /\ pc = "idle" /\ ncalls = 2 /\ result.pid = pid
    /\ outcome.op = "refresh" /\ outcome.kind = "raise"
    /\ fetched /\ _status = "DONE"
    /\ pid = "xyz789" /\ base_url \in BaseUrls

---------------------------------------------------------------------------
(* C17: the cached status changes only in a step of refresh() or status(), the
   refresh() that running() and done() make on an empty cache included, and
   its new value is then the parse of the status in the reply to that call; no
   step of result() changes it, although result() has seen a terminal
   Job-Status header, and running() and done() on a cached status leave it. *)
C17_StatusOnlyFromReply ==
    [][/\ _status' # _status =>
            /\ pc = "idle" /\ pc' = "idle"
            /\ \/ outcome'.op = "refresh" /\ info_requests' = 1
               \/ outcome'.op = "status" /\ status_requests' = 1
               \/ /\ outcome'.op \in {"running", "done"}
                  /\ _status = "None" /\ info_requests' = 1
            /\ reply'.body.status # Absent
            /\ _status' = Parsed(reply'.body.status)
       /\ (pc # "idle" \/ pc' # "idle") => _status' = _status
       /\ (outcome'.op \in {"running", "done"} /\ pc' = "idle" /\ _status # "None")
            => _status' = _status]_vars

C17_Witness ==
    /\ ResultReturned /\ loads = 1
    /\ JobStatusHeader = "success"
    /\ fetched /\ _status = "RUNNING"

---------------------------------------------------------------------------
(* C18: a refresh() call that raises leaves circuit, nshots, device,
   lab_location and the cached status as they were before the call. *)
C18_RefreshAllOrNothing ==
    [][(outcome'.op = "refresh" /\ outcome'.kind = "raise")
          => UNCHANGED <<circuit, nshots, device, lab_location, _status>>]_vars

---------------------------------------------------------------------------
LoopParsed == Parsed(JobStatusHeader)
TookErrorBranch == ResultReturned /\ outcome.exc = "" /\ loads = 0
ReachedDecoding == pc = "load" \/ (ResultFinished /\ loads = 1)

(* C19 as claimed: for every response the polling loop returned, result() has
   taken its error branch exactly when the loop parsed the header as ERROR and
   has gone on to decode the payload exactly when the loop parsed it as DONE. *)
C19_BranchIffParse ==
    (ResultFinished /\ outcome.exc # "KeyError")
    => /\ TookErrorBranch <=> LoopParsed = "ERROR"
       /\ ReachedDecoding <=> LoopParsed = "DONE"

(* C19 amended: every response the loop returns was parsed as DONE or ERROR;
   when result() has unpacked its archive and reaches the header test, it takes
   the error branch exactly when the loop parsed ERROR and goes on to decode
   exactly when the loop parsed DONE; it never decodes after ERROR nor takes the
   error branch after DONE. *)
C19_BranchIffParseOnceUnpacked ==
    /\ pc \in {"mkdir", "write", "extract", "unlink", "check"}
          => LoopParsed \in {"DONE", "ERROR"}
    /\ ReachedDecoding => LoopParsed = "DONE"
    /\ TookErrorBranch => LoopParsed = "ERROR"
    /\ (ResultFinished /\ outcome.exc \notin {"KeyError", "ReadError", "EOFError"})
          => /\ TookErrorBranch <=> LoopParsed = "ERROR"
             /\ ReachedDecoding <=> LoopParsed = "DONE"

C19_Witness ==
    /\ TookErrorBranch
    /\ Len(seen) = 2 /\ seen[1] = "Error" /\ seen[2] = "error"
    /\ ~TmpExists(archive_path)

---------------------------------------------------------------------------
(* C16: with two handles of different pids whose result() calls interleave, a
   step of the running handle leaves the other handle's results directory as
   it is (the directory itself and every file in it) and leaves the other's
   temporary archive file as it is (its existence and its content); the
   temporary file the running handle works on is never the other's. *)
C16_NoInterference ==
    [][parked' = parked =>
          LET theirs == {parked.pid, parked.results_folder} IN
          /\ \A d \in theirs : (d \in dirs') <=> (d \in dirs)
          /\ {f \in files' : f.dir \in theirs} = {f \in files : f.dir \in theirs}
          /\ {t \in tmp_files' : t.path = parked.archive_path}
                = {t \in tmp_files : t.path = parked.archive_path}
          /\ archive_path' # 0 => archive_path' # parked.archive_path]_vars

C16_Witness ==
    /\ ResultReturned /\ loads = 1 /\ ~TmpExists(archive_path)
    /\ parked.pid # pid /\ parked.pc = "unlink"
    /\ TmpExists(parked.archive_path)
    /\ \E f \in files : f.dir = parked.results_folder
    /\ \E f \in files : f.dir = results_folder

---------------------------------------------------------------------------
Constructing == tii_outcome.op = "__init__"
ReportsVersion ==
    /\ Is2xx(reply.status_code) /\ reply.body.kind = "object"
    /\ "qibo_version" \in reply.body.keys

(* C15: when the server answers the version request with a qibo version other
   than the local one, TIIProvider() raises (the assertion fails) and no client
   exists, so that no circuit POST and no result GET is ever issued; when the
   answer is a JSON object without the qibo_version key, TIIProvider() raises
   MalformedResponseError.  A client that posts or polls was built against a
   server reporting the local version. *)
C15_VersionCheckedAtConstruction ==
    /\ (Constructing /\ ReportsVersion /\ reply.body.qibo_version # "0.2.4")
       => /\ tii_pc = "failed"
          /\ tii_outcome.kind = "raise" /\ tii_outcome.exc = "AssertionError"
    /\ (Constructing /\ Is2xx(reply.status_code) /\ reply.body.kind = "object"
            /\ "qibo_version" \notin reply.body.keys)
       => /\ tii_pc = "failed"
          /\ tii_outcome.kind = "raise"
          /\ tii_outcome.exc = "MalformedResponseError"
    /\ tii_pc = "failed" => (Constructing /\ posts = 0 /\ result_gets = 0)
    /\ (Constructing /\ tii_pc = "ready")
       => (ReportsVersion /\ reply.body.qibo_version = "0.2.4")
    /\ (posts > 0 \/ result_gets > 0) => tii_pc \in {"ready", "poll"}

C15_Witness ==
    /\ tii_pc = "failed" /\ posts = 0 /\ result_gets = 0
    /\ reply = Reply(200, JsonBody({"qibo_version"}, "0.2.5", None))
    /\ tii_outcome.exc = "AssertionError"

PostFailed ==
    \/ reply.status_code = 0
    \/ ~Is2xx(reply.status_code)
    \/ reply.body.kind # "object"
    \/ ~({"pid", "message"} \subseteq reply.body.keys)

(* C20: when the POST of run_circuit fails (it raises, the answer is not 2xx,
   or the body lacks pid or message), run_circuit returns None without raising
   and without any result request; result requests are issued only after a
   POST that succeeded. *)
C20_FailedPostReturnsNone ==
    /\ (tii_outcome.op = "run_circuit" /\ PostFailed)
       => /\ tii_outcome.kind = "return"
          /\ retval = None
          /\ result_gets = 0
    /\ result_gets > 0 => ~PostFailed

====
